---- MODULE Spec2Model ----
(***************************************************************************)
(* Model of nrf-app/src/lib.rs: the AsyncStep dispatch engine.             *)
(*                                                                         *)
(* Two static bounded queues (heapless Q64) hold AsyncStep values.         *)
(* Producers (interrupt routines, callbacks) enqueue steps, the main loop  *)
(* (run_queue, or run_queue_hilo over both queues) dequeues and dispatches *)
(* them, one at a time, until a Stop step is dispatched.                   *)
(*                                                                         *)
(* The repository ships the state-machine protocol as placeholders: State  *)
(* has the variant Standby "and other states", Command and Event are       *)
(* "various" (empty) enums and transition is the stub (None, Same).  The   *)
(* dispatcher is generic in them, so the model instantiates the            *)
(* vocabulary with small sets and lets transition be any pure function of  *)
(* its two arguments, fixed per behaviour; the stub is one instance.  The  *)
(* CommandHandler is a trait without an implementation: a call of handle   *)
(* may post any events through the notifier it is given.                   *)
(***************************************************************************)
EXTENDS Integers, Sequences, FiniteSets, TLC

VARIABLES
  queues,      \* queue name -> sequence of stored entries [step, id]
  pc,          \* position of the main loop
  cur,         \* the entry dequeued by the loop and being dispatched, or NoEntry
  curq,        \* the queue cur was dequeued from (the `queue` argument of dispatch)
  state,       \* `let mut state = start`
  start,       \* the `start` argument of the loop
  returned,    \* the State the loop returned, or NotReturned
  pending,     \* `o` of the Notify arm between transition and the enqueue of Perform
  table,       \* the results transition has given so far, per (state, event)
  dispatched,  \* history: the entries dispatched, in order, with their queue
  handled,     \* history: the calls of handler.handle, <<command, id of the Perform>>
  accepted,    \* history: queue name -> the entries the queue stored, in order
  attempts,    \* number of enqueue calls made so far (gives each step its id)
  produced,    \* number of enqueue calls made by producers outside the loop
  posted,      \* number of events the handler posted through the notifier
  lastEnq      \* the last call of AsyncStep::enqueue: what it returned, what happened

vars == <<queues, pc, cur, curq, state, start, returned, pending, table,
          dispatched, handled, accepted, attempts, produced, posted, lastEnq>>

----------------------------------------------------------------------------
(* Bounds of the model *)

\* enqueue calls by producers and by the handler's notifier while run_queue
\* runs (the Perform steps the Notify arm enqueues come on top)
MaxEnq == 3

\* the same for run_queue_hilo, which has two queues to choose from
MaxEnqHilo == 3

\* enqueue calls of the burst producer of SpecOverflow
MaxBurst == 66

\* SpecFull: enqueue calls by producers after the loop was entered
MaxRefill == 1

\* SpecFull: events the handler posts through the notifier
MaxPostsFull == 1

\* SpecSingleLive: enqueue calls by producers and by the handler's notifier
MaxEnqLive == 2

\* SpecStarve: enqueue calls by producers
MaxEnqStarve == 3

\* SpecStarve: calls of the handler that post their event
MaxPostsStarve == 4

\* SpecProducers: enqueue calls by producers and by the handler's notifier
MaxEnqProducers == 4

(* Program constants *)

\* Q64: the capacity of a queue
Capacity == 64

----------------------------------------------------------------------------
(* The vocabulary *)

PRIORITY == "PRIORITY"
DEFAULT == "DEFAULT"

\* the two static queues
QueueNames == {PRIORITY, DEFAULT}

\* state_machine::State, Command, Event
States == {"Standby", "Active"}
Commands == {"C1"}
Events == {"E1", "E2"}

\* fn pointers and u32 arguments carried by the raw steps
Fns == {"f"}
U32s == {1}

\* enum Transition
Same == <<"Same">>
NextState(s) == <<"Next", s>>
Transitions == {Same} \cup {NextState(s) : s \in States}

\* Option<Command>
None == <<"None">>
Some(c) == <<"Some", c>>
OptCommands == {None} \cup {Some(c) : c \in Commands}

\* the results of transition: (Option<Command>, Transition)
Outcomes == OptCommands \X Transitions

\* enum AsyncStep
StepUnit(run) == [kind |-> "StepUnit", payload |-> <<run>>]
StepU32(run, arg) == [kind |-> "StepU32", payload |-> <<run, arg>>]
Step2U32(run, arg0, arg1) == [kind |-> "Step2U32", payload |-> <<run, arg0, arg1>>]
Perform(command) == [kind |-> "Perform", payload |-> <<command>>]
Notify(event) == [kind |-> "Notify", payload |-> <<event>>]
Stop == [kind |-> "Stop", payload |-> <<>>]

RawKinds == {"StepUnit", "StepU32", "Step2U32"}

AsyncSteps ==
  {StepUnit(r) : r \in Fns}
    \cup {StepU32(r, a) : r \in Fns, a \in U32s}
    \cup {Step2U32(r, a, a) : r \in Fns, a \in U32s}
    \cup {Perform(c) : c \in Commands}
    \cup {Notify(e) : e \in Events}
    \cup {Stop}

\* the steps the producers of the two-queue model enqueue: one of each way
\* dispatch treats a step
HiloSteps == {StepUnit("f"), Perform("C1"), Notify("E1"), Stop}

NoEntry == [step |-> [kind |-> "none", payload |-> <<>>], id |-> 0]
NoQueue == "none"
NoCommand == "none"
NotReturned == "running"
NotCalled == <<"NotCalled">>
Unit == "()"
NoCall == [ret |-> "none", full |-> FALSE, stored |-> FALSE]

----------------------------------------------------------------------------
(* The queue: heapless::mpmc::Q64, a bounded FIFO *)

\* an enqueue that stores the item at the head
MutQEnqueue(q, item) ==
  IF Len(q) < Capacity
    THEN [ok |-> TRUE, q |-> <<item>> \o q]
    ELSE [ok |-> FALSE, q |-> q]

\* Q64::enqueue: Ok(()) and the item stored at the tail, or Err(item) when full
QEnqueue(q, item) ==
  IF Len(q) < Capacity
    THEN [ok |-> TRUE, q |-> Append(q, item)]
    ELSE [ok |-> FALSE, q |-> q]

\* a dequeue that takes the newest item
MutQDequeue(q) ==
  IF q = <<>>
    THEN [some |-> FALSE, item |-> NoEntry, q |-> q]
    ELSE [some |-> TRUE, item |-> q[Len(q)], q |-> SubSeq(q, 1, Len(q) - 1)]

\* a dequeue that returns the oldest item and leaves it in the queue
MutQDequeuePeek(q) ==
  IF q = <<>>
    THEN [some |-> FALSE, item |-> NoEntry, q |-> q]
    ELSE [some |-> TRUE, item |-> Head(q), q |-> q]

\* Q64::dequeue: the oldest item, or None
QDequeue(q) ==
  IF q = <<>>
    THEN [some |-> FALSE, item |-> NoEntry, q |-> q]
    ELSE [some |-> TRUE, item |-> Head(q), q |-> Tail(q)]

\* an enqueue that makes room in a full queue by displacing the oldest item
MutAsyncEnqueueDisplace(q, item) ==
  IF Len(q) < Capacity
    THEN [q |-> Append(q, item), ret |-> Unit, full |-> FALSE, stored |-> TRUE]
    ELSE [q |-> Append(Tail(q), item), ret |-> Unit, full |-> TRUE,
          stored |-> TRUE]

\* an enqueue that hands the queue's result to its caller as a bool
MutAsyncEnqueueBool(q, item) ==
  LET r == QEnqueue(q, item)
  IN  [q |-> r.q, ret |-> IF r.ok THEN "true" ELSE "false",
       full |-> ~(Len(q) < Capacity), stored |-> r.ok]

\* AsyncStep::enqueue: `queue.enqueue(self).ok();` and the return value ()
AsyncEnqueue(q, item) ==
  LET r == QEnqueue(q, item)
  IN  [q |-> r.q, ret |-> Unit, full |-> ~(Len(q) < Capacity), stored |-> r.ok]

\* the effect of one call step.enqueue(queue) on the model's variables
DoEnqueue(qn, step) ==
  LET item == [step |-> step, id |-> attempts + 1]
      r == AsyncEnqueue(queues[qn], item)
  IN  /\ queues' = [queues EXCEPT ![qn] = r.q]
      /\ accepted' = [accepted EXCEPT
                        ![qn] = IF r.stored THEN Append(@, item) ELSE @]
      /\ attempts' = attempts + 1
      /\ lastEnq' = [ret |-> r.ret, full |-> r.full, stored |-> r.stored]

----------------------------------------------------------------------------
(* Initial state: both queues empty, the loop entered with start = Standby *)

Init ==
  /\ queues = [n \in QueueNames |-> <<>>]
  /\ pc = "loop"
  /\ cur = NoEntry
  /\ curq = NoQueue
  /\ start = "Standby"
  /\ state = start
  /\ returned = NotReturned
  /\ pending = NoCommand
  /\ table = [p \in States \X Events |-> NotCalled]
  /\ dispatched = <<>>
  /\ handled = <<>>
  /\ accepted = [n \in QueueNames |-> <<>>]
  /\ attempts = 0
  /\ produced = 0
  /\ posted = 0
  /\ lastEnq = NoCall

----------------------------------------------------------------------------
(* Producers *)

\* enqueue_default / enqueue_priority called from an interrupt routine or a
\* callback; an interrupt ends the idle-wait
Produce(may, qn, step) ==
  /\ pc # "done"
  /\ may
  /\ DoEnqueue(qn, step)
  /\ produced' = produced + 1
  /\ pc' = IF pc = "asleep" THEN "loop" ELSE pc
  /\ UNCHANGED <<cur, curq, state, start, returned, pending, table,
                 dispatched, handled, posted>>

\* a loop that executes wfi again when it is woken, without the retry
MutWakeOnly ==
  /\ pc = "asleep"
  /\ pc' = "wfi"
  /\ UNCHANGED <<queues, cur, curq, state, start, returned, pending, table,
                 dispatched, handled, accepted, attempts, produced, posted,
                 lastEnq>>

\* an interrupt that enqueues nothing ends the idle-wait
WakeOnly ==
  /\ pc = "asleep"
  /\ pc' = "loop"
  /\ UNCHANGED <<queues, cur, curq, state, start, returned, pending, table,
                 dispatched, handled, accepted, attempts, produced, posted,
                 lastEnq>>

----------------------------------------------------------------------------
(* The loops *)

\* run_default_queues passes both queues to run_queue_hilo as one and the same
MutHiQueue == DEFAULT

\* run_default_queues: the hi_queue and lo_queue arguments of run_queue_hilo
HiQueue == PRIORITY
LoQueue == DEFAULT

\* a loop that turns to the lo queue after every step from the hi queue
MutDequeueHi ==
  /\ pc = "loop"
  /\ LET r == QDequeue(queues[HiQueue])
         turn == /\ dispatched # <<>>
                 /\ dispatched[Len(dispatched)].q = HiQueue
                 /\ queues[LoQueue] # <<>>
     IN  IF r.some /\ ~turn
           THEN /\ queues' = [queues EXCEPT ![HiQueue] = r.q]
                /\ cur' = r.item
                /\ curq' = HiQueue
                /\ pc' = "dispatch"
           ELSE /\ pc' = "trylo"
                /\ UNCHANGED <<queues, cur, curq>>
  /\ UNCHANGED <<state, start, returned, pending, table, dispatched, handled,
                 accepted, attempts, produced, posted, lastEnq>>

\* run_queue_hilo: `if let Some(step) = hi_queue.dequeue()`
DequeueHi ==
  /\ pc = "loop"
  /\ LET r == QDequeue(queues[HiQueue])
     IN  IF r.some
           THEN /\ queues' = [queues EXCEPT ![HiQueue] = r.q]
                /\ cur' = r.item
                /\ curq' = HiQueue
                /\ pc' = "dispatch"
           ELSE /\ pc' = "trylo"
                /\ UNCHANGED <<queues, cur, curq>>
  /\ UNCHANGED <<state, start, returned, pending, table, dispatched, handled,
                 accepted, attempts, produced, posted, lastEnq>>

\* a lo branch that dequeues the step and goes on without dispatching it
MutDequeueLo ==
  /\ pc = "trylo"
  /\ LET r == QDequeue(queues[LoQueue])
     IN  /\ queues' = [queues EXCEPT ![LoQueue] = r.q]
         /\ pc' = IF r.some THEN "loop" ELSE "wfi"
  /\ UNCHANGED <<cur, curq, state, start, returned, pending, table,
                 dispatched, handled, accepted, attempts, produced, posted,
                 lastEnq>>

\* run_queue_hilo: `else if let Some(step) = lo_queue.dequeue()`, else wfi
DequeueLo ==
  /\ pc = "trylo"
  /\ LET r == QDequeue(queues[LoQueue])
     IN  IF r.some
           THEN /\ queues' = [queues EXCEPT ![LoQueue] = r.q]
                /\ cur' = r.item
                /\ curq' = LoQueue
                /\ pc' = "dispatch"
           ELSE /\ pc' = "wfi"
                /\ UNCHANGED <<queues, cur, curq>>
  /\ UNCHANGED <<state, start, returned, pending, table, dispatched, handled,
                 accepted, attempts, produced, posted, lastEnq>>

\* run_queue: `if let Some(step) = queue.dequeue()`, else wfi
DequeueSingle(qn) ==
  /\ pc = "loop"
  /\ LET r == QDequeue(queues[qn])
     IN  IF r.some
           THEN /\ queues' = [queues EXCEPT ![qn] = r.q]
                /\ cur' = r.item
                /\ curq' = qn
                /\ pc' = "dispatch"
           ELSE /\ pc' = "wfi"
                /\ UNCHANGED <<queues, cur, curq>>
  /\ UNCHANGED <<state, start, returned, pending, table, dispatched, handled,
                 accepted, attempts, produced, posted, lastEnq>>

\* asm::wfi(): the core sleeps until the next interrupt
Wfi ==
  /\ pc = "wfi"
  /\ pc' = "asleep"
  /\ UNCHANGED <<queues, cur, curq, state, start, returned, pending, table,
                 dispatched, handled, accepted, attempts, produced, posted,
                 lastEnq>>

----------------------------------------------------------------------------
(* AsyncStep::dispatch *)

\* a loop that passes hi_queue to dispatch in both branches
MutDispatchQueue(qn) == HiQueue

\* the `queue` argument the loop passes to dispatch for a step dequeued from qn
DispatchQueue(qn) == qn

\* a match on t that ignores Next
MutApplyTransition(s, t) == s

\* `match t { Next(s) => *state = s, Same => () }`
ApplyTransition(s, t) == IF t = Same THEN s ELSE t[2]

\* a dispatch that returns true for Stop too
MutContinues(step) == TRUE

\* the bool dispatch returns: false for Stop, true for every other variant
Continues(step) == step.kind # "Stop"

\* a loop that returns when dispatch returned true: `if step.dispatch(..)`
MutAfterDispatch(continues) == IF continues THEN "done" ELSE "loop"

\* the position of the loop after dispatch returned `continues`
AfterDispatch(continues) == IF continues THEN "loop" ELSE "done"

\* a loop that returns its start argument
MutLoopResult(s) == start

\* what the loop returns when dispatch returned false: `return state`
LoopResult(s) == s

Logged == [step |-> cur.step, id |-> cur.id, q |-> curq]

\* StepUnit, StepU32, Step2U32: run the callback with its arguments
DispatchRaw ==
  /\ pc = "dispatch"
  /\ cur.step.kind \in RawKinds
  /\ dispatched' = Append(dispatched, Logged)
  /\ pc' = AfterDispatch(Continues(cur.step))
  /\ cur' = NoEntry
  /\ curq' = NoQueue
  /\ UNCHANGED <<queues, state, start, returned, pending, table, handled,
                 accepted, attempts, produced, posted, lastEnq>>

\* a Perform arm that starts the handler and returns to the loop at once
MutDispatchPerform ==
  /\ pc = "dispatch"
  /\ cur.step.kind = "Perform"
  /\ dispatched' = Append(dispatched, Logged)
  /\ handled' = Append(handled, <<cur.step.payload[1], cur.id>>)
  /\ pc' = "loop"
  /\ UNCHANGED <<queues, cur, curq, state, start, returned, pending, table,
                 accepted, attempts, produced, posted, lastEnq>>

\* Perform: handler.handle(command, queue) is entered
DispatchPerform ==
  /\ pc = "dispatch"
  /\ cur.step.kind = "Perform"
  /\ dispatched' = Append(dispatched, Logged)
  /\ handled' = Append(handled, <<cur.step.payload[1], cur.id>>)
  /\ pc' = "handling"
  /\ UNCHANGED <<queues, cur, curq, state, start, returned, pending, table,
                 accepted, attempts, produced, posted, lastEnq>>

\* inside handle: notifier.notify(e), which is
\* `AsyncStep::Notify { event: e }.enqueue(self)` on the queue dispatch was given
HandlerNotify(may, e) ==
  /\ pc = "handling"
  /\ may
  /\ DoEnqueue(DispatchQueue(curq), Notify(e))
  /\ posted' = posted + 1
  /\ UNCHANGED <<pc, cur, curq, state, start, returned, pending, table,
                 dispatched, handled, produced>>

\* handle returns, and dispatch returns true
HandlerReturn ==
  /\ pc = "handling"
  /\ pc' = AfterDispatch(Continues(cur.step))
  /\ cur' = NoEntry
  /\ curq' = NoQueue
  /\ UNCHANGED <<queues, state, start, returned, pending, table, dispatched,
                 handled, accepted, attempts, produced, posted, lastEnq>>

\* a transition whose result depends on more than its two arguments: a call
\* may give any result, whatever it gave for the same pair before
MutDispatchNotify ==
  /\ pc = "dispatch"
  /\ cur.step.kind = "Notify"
  /\ LET e == cur.step.payload[1]
     IN  \E out \in Outcomes :
           /\ table' = [table EXCEPT ![<<state, e>>] = out]
           /\ state' = ApplyTransition(state, out[2])
           /\ IF out[1] = None
                THEN /\ pc' = AfterDispatch(Continues(cur.step))
                     /\ pending' = NoCommand
                     /\ cur' = NoEntry
                     /\ curq' = NoQueue
                ELSE /\ pc' = "enq_perform"
                     /\ pending' = out[1][2]
                     /\ UNCHANGED <<cur, curq>>
  /\ dispatched' = Append(dispatched, Logged)
  /\ UNCHANGED <<queues, start, returned, handled, accepted, attempts,
                 produced, posted, lastEnq>>

\* Notify: `let (o, t) = transition(state, event)` and the match on t.
\* transition is a pure function: a pair it was called with before gives the
\* result it gave before.
DispatchNotify ==
  /\ pc = "dispatch"
  /\ cur.step.kind = "Notify"
  /\ LET e == cur.step.payload[1]
     IN  \E out \in Outcomes :
           /\ table[<<state, e>>] \in {NotCalled, out}
           /\ table' = [table EXCEPT ![<<state, e>>] = out]
           /\ state' = ApplyTransition(state, out[2])
           /\ IF out[1] = None
                THEN /\ pc' = AfterDispatch(Continues(cur.step))
                     /\ pending' = NoCommand
                     /\ cur' = NoEntry
                     /\ curq' = NoQueue
                ELSE /\ pc' = "enq_perform"
                     /\ pending' = out[1][2]
                     /\ UNCHANGED <<cur, curq>>
  /\ dispatched' = Append(dispatched, Logged)
  /\ UNCHANGED <<queues, start, returned, handled, accepted, attempts,
                 produced, posted, lastEnq>>

\* a Notify arm that calls enqueue_priority() instead of enqueue(queue)
MutEnqueuePerform ==
  /\ pc = "enq_perform"
  /\ DoEnqueue(PRIORITY, Perform(pending))
  /\ pc' = AfterDispatch(Continues(cur.step))
  /\ pending' = NoCommand
  /\ cur' = NoEntry
  /\ curq' = NoQueue
  /\ UNCHANGED <<state, start, returned, table, dispatched, handled, produced,
                 posted>>

\* a Notify arm that returns false when its Perform did not fit in the queue
MutEnqueuePerformOrStop ==
  /\ pc = "enq_perform"
  /\ DoEnqueue(DispatchQueue(curq), Perform(pending))
  /\ pc' = AfterDispatch(Len(queues[DispatchQueue(curq)]) < Capacity)
  /\ pending' = NoCommand
  /\ cur' = NoEntry
  /\ curq' = NoQueue
  /\ UNCHANGED <<state, start, returned, table, dispatched, handled, produced,
                 posted>>

\* Notify: `if let Some(c) = o { AsyncStep::Perform { command: c }.enqueue(queue) }`
EnqueuePerform ==
  /\ pc = "enq_perform"
  /\ DoEnqueue(DispatchQueue(curq), Perform(pending))
  /\ pc' = AfterDispatch(Continues(cur.step))
  /\ pending' = NoCommand
  /\ cur' = NoEntry
  /\ curq' = NoQueue
  /\ UNCHANGED <<state, start, returned, table, dispatched, handled, produced,
                 posted>>

\* Stop: dispatch returns false and the loop returns state
DispatchStop ==
  /\ pc = "dispatch"
  /\ cur.step.kind = "Stop"
  /\ dispatched' = Append(dispatched, Logged)
  /\ pc' = AfterDispatch(Continues(cur.step))
  /\ returned' = LoopResult(state)
  /\ cur' = NoEntry
  /\ curq' = NoQueue
  /\ UNCHANGED <<queues, state, start, pending, table, handled, accepted,
                 attempts, produced, posted, lastEnq>>

Dispatch(may) ==
  \/ DispatchRaw
  \/ DispatchPerform
  \/ \E e \in Events : HandlerNotify(may, e)
  \/ HandlerReturn
  \/ DispatchNotify
  \/ EnqueuePerform
  \/ DispatchStop

----------------------------------------------------------------------------
(* Specifications *)

\* the model's budget of enqueue calls by producers and the handler
Budget(limit) == produced + posted < limit

\* run_default_queues: run_queue_hilo over the two static queues
Next ==
  \/ \E qn \in QueueNames, step \in HiloSteps : Produce(Budget(MaxEnqHilo), qn, step)
  \/ WakeOnly
  \/ DequeueHi
  \/ DequeueLo
  \/ Wfi
  \/ Dispatch(Budget(MaxEnqHilo))

Spec == Init /\ [][Next]_vars

\* run_queue over the default queue
NextSingle ==
  \/ \E step \in AsyncSteps : Produce(Budget(MaxEnq), DEFAULT, step)
  \/ WakeOnly
  \/ DequeueSingle(DEFAULT)
  \/ Wfi
  \/ Dispatch(Budget(MaxEnq))

SpecSingle == Init /\ [][NextSingle]_vars

\* run_queue over the default queue, for the progress of the loop
NextSingleLive ==
  \/ \E step \in AsyncSteps : Produce(Budget(MaxEnqLive), DEFAULT, step)
  \/ WakeOnly
  \/ DequeueSingle(DEFAULT)
  \/ Wfi
  \/ Dispatch(Budget(MaxEnqLive))

\* The loop is sequential code on a running core: each of its steps is taken
\* when it is its turn.  The callbacks and the handler return.  An idle-wait
\* is ended by a later interrupt.  Nothing is assumed of the producers and of
\* the events the handler posts.
SpecSingleLive ==
  /\ Init
  /\ [][NextSingleLive]_vars
  /\ WF_vars(DequeueSingle(DEFAULT))
  /\ WF_vars(Wfi)
  /\ WF_vars(WakeOnly)
  /\ WF_vars(DispatchRaw)
  /\ WF_vars(DispatchPerform)
  /\ WF_vars(HandlerReturn)
  /\ WF_vars(DispatchNotify)
  /\ WF_vars(EnqueuePerform)
  /\ WF_vars(DispatchStop)

\* a producer that enqueues a burst of numbered steps on the default queue
\* while run_queue runs on it: the n-th call carries StepU32(f, n)
ProduceBurst ==
  /\ pc # "done"
  /\ attempts < MaxBurst
  /\ DoEnqueue(DEFAULT, StepU32("f", attempts + 1))
  /\ produced' = produced + 1
  /\ pc' = IF pc = "asleep" THEN "loop" ELSE pc
  /\ UNCHANGED <<cur, curq, state, start, returned, pending, table,
                 dispatched, handled, posted>>

NextOverflow ==
  \/ ProduceBurst
  \/ WakeOnly
  \/ DequeueSingle(DEFAULT)
  \/ Wfi
  \/ DispatchRaw

SpecOverflow == Init /\ [][NextOverflow]_vars

\* the steps at the head of the full queue of SpecFull
FullHeads == {Notify(e) : e \in Events} \cup {Perform(c) : c \in Commands} \cup {Stop}

\* what the producers left in a queue they filled to capacity before the loop
\* was entered: a head step and callbacks behind it
FilledQueue(head) ==
  [i \in 1..Capacity |->
     [step |-> IF i = 1 THEN head ELSE StepUnit("f"), id |-> i]]

\* run_default_queues entered with one of the two queues full
InitFull ==
  /\ \E qf \in QueueNames, head \in FullHeads :
       /\ queues = [n \in QueueNames |->
                      IF n = qf THEN FilledQueue(head) ELSE <<>>]
       /\ accepted = queues
  /\ attempts = Capacity
  /\ pc = "loop"
  /\ cur = NoEntry
  /\ curq = NoQueue
  /\ start = "Standby"
  /\ state = start
  /\ returned = NotReturned
  /\ pending = NoCommand
  /\ table = [p \in States \X Events |-> NotCalled]
  /\ dispatched = <<>>
  /\ handled = <<>>
  /\ produced = 0
  /\ posted = 0
  /\ lastEnq = [ret |-> Unit, full |-> FALSE, stored |-> TRUE]

\* the producers go on enqueueing callbacks on the queue they filled while
\* the loop runs
NextFull ==
  \/ \E qn \in QueueNames :
       Produce(produced < MaxRefill /\ accepted[qn] # <<>>, qn, StepUnit("f"))
  \/ WakeOnly
  \/ DequeueHi
  \/ DequeueLo
  \/ Wfi
  \/ Dispatch(posted < MaxPostsFull)

SpecFull == InitFull /\ [][NextFull]_vars

\* no interrupt routine runs between the dequeue of a Notify and the end of
\* its dispatch
QuietForNotify ==
  ~(pc \in {"dispatch", "enq_perform"} /\ cur.step.kind = "Notify")

\* run_default_queues entered with one queue full, and producers that refill
\* it at any point except during the dispatch of a Notify
NextQuiet ==
  \/ \E qn \in QueueNames :
       Produce(produced < MaxRefill /\ accepted[qn] # <<>> /\ QuietForNotify,
               qn, StepUnit("f"))
  \/ WakeOnly
  \/ DequeueHi
  \/ DequeueLo
  \/ Wfi
  \/ Dispatch(posted < MaxPostsFull)

SpecQuiet == InitFull /\ [][NextQuiet]_vars

\* the producers of SpecProducers: two interrupt routines
Producers == {1, 2}

\* the steps of producer p the default queue stored
StoredOf(p) ==
  SelectSeq(accepted[DEFAULT],
            LAMBDA x : x.step.kind = "Step2U32" /\ x.step.payload[2] = p)

\* producer p calls enqueue_default with its next step: Step2U32(f, p, k) is
\* the k-th step of producer p
ProduceAs(p) ==
  Produce(Budget(MaxEnqProducers), DEFAULT,
          Step2U32("f", p, Len(StoredOf(p)) + 1))

\* run_queue over the default queue with two numbered producers and a third
\* that posts an event or a Stop; each may enqueue at any point of the loop
\* and between any two calls of the others
NextProducers ==
  \/ \E p \in Producers : ProduceAs(p)
  \/ \E step \in {Notify("E1"), Stop} :
       Produce(Budget(MaxEnqProducers), DEFAULT, step)
  \/ WakeOnly
  \/ DequeueSingle(DEFAULT)
  \/ Wfi
  \/ Dispatch(Budget(MaxEnqProducers))

SpecProducers == Init /\ [][NextProducers]_vars

\* a CommandHandler whose handle posts one event, E1, and returns
EchoNotify ==
  HandlerNotify(posted < Len(handled) /\ posted < MaxPostsStarve, "E1")

EchoReturn ==
  /\ posted = Len(handled)
  /\ HandlerReturn

\* run_default_queues under load on the priority queue: producers enqueue
\* events on the priority queue and a callback or a Stop on the default
\* queue, and the handler answers every command with an event
NextStarve ==
  \/ Produce(produced < MaxEnqStarve, PRIORITY, Notify("E1"))
  \/ \E step \in {StepUnit("f"), Stop} :
       Produce(produced < MaxEnqStarve, DEFAULT, step)
  \/ WakeOnly
  \/ DequeueHi
  \/ DequeueLo
  \/ Wfi
  \/ DispatchRaw
  \/ DispatchPerform
  \/ EchoNotify
  \/ EchoReturn
  \/ DispatchNotify
  \/ EnqueuePerform
  \/ DispatchStop

SpecStarve == Init /\ [][NextStarve]_vars

----------------------------------------------------------------------------
(* Operators the properties are stated with *)

\* a dispatched entry without the queue it came from
Entry(d) == [step |-> d.step, id |-> d.id]

Strip(log) == [i \in 1..Len(log) |-> Entry(log[i])]

\* the entries dispatched from queue qn, in dispatch order
FromQueue(qn) == Strip(SelectSeq(dispatched, LAMBDA d : d.q = qn))

\* the entry dequeued from qn whose dispatch has not begun
InFlight(qn) == IF pc = "dispatch" /\ curq = qn THEN <<cur>> ELSE <<>>

Kinds(seq) == [i \in 1..Len(seq) |-> seq[i].step.kind]

IsPrefix(a, b) == Len(a) <= Len(b) /\ a = SubSeq(b, 1, Len(a))

\* Next(s) replaces the state, Same leaves it; a pair transition was never
\* called with gives no state
Applied(s, e) ==
  LET out == table[<<s, e>>]
  IN  IF s \notin States \/ out = NotCalled THEN "undefined"
      ELSE IF out[2][1] = "Next" THEN out[2][2] ELSE s

\* the start state folded with transition over the events of the Notify steps
\* of a log, in the log's order
RECURSIVE FoldState(_, _)
FoldState(s, log) ==
  IF log = <<>> THEN s
  ELSE FoldState(IF Head(log).step.kind = "Notify"
                   THEN Applied(s, Head(log).step.payload[1])
                   ELSE s,
                 Tail(log))

\* the two-queue loop's other queue
Other(qn) == IF qn = PRIORITY THEN DEFAULT ELSE PRIORITY

----------------------------------------------------------------------------
(* Properties of run_queue (SpecSingle) *)

\* C1: FIFO.  The k-th step run_queue dispatches is the k-th step its queue
\* stored: the steps dispatched so far, followed by the step dequeued and not
\* yet dispatched, are the first steps successfully enqueued, in that order.
FifoOrder ==
  /\ \A i \in 1..Len(dispatched) : dispatched[i].q = DEFAULT
  /\ IsPrefix(Strip(dispatched) \o InFlight(DEFAULT), accepted[DEFAULT])

\* four steps without a Stop dispatched, one of them enqueued by the loop itself
FifoWitness ==
  /\ Len(dispatched) = 4
  /\ \A i \in 1..4 : dispatched[i].step.kind # "Stop"
  /\ \E i \in 1..4 : dispatched[i].step.kind = "Perform"
  /\ \E i \in 1..4 : dispatched[i].step.kind \in RawKinds
  /\ Strip(dispatched) = accepted[DEFAULT]

\* C4: Stop in run_queue.  The loop has returned exactly when a Stop was
\* dispatched, and that Stop is the last step dispatched: what was stored
\* behind it is still in the queue, undispatched; the state returned is the
\* loop's state, which is the start state folded over the Notify steps
\* dispatched before the Stop.
StopSemantics ==
  /\ pc # "done" =>
       /\ returned = NotReturned
       /\ \A i \in 1..Len(dispatched) : dispatched[i].step # Stop
  /\ pc = "done" =>
       /\ returned = state
       /\ returned = FoldState(start, dispatched)
       /\ dispatched # <<>>
       /\ dispatched[Len(dispatched)].step = Stop
       /\ \A i \in 1..(Len(dispatched) - 1) : dispatched[i].step # Stop
       /\ Strip(dispatched) \o queues[DEFAULT] = accepted[DEFAULT]

\* the queue [Notify(E1), Stop, StepUnit(f)]: the loop returned the state E1
\* led to and f was not invoked
StopWitness ==
  /\ pc = "done"
  /\ Len(accepted[DEFAULT]) >= 3
  /\ accepted[DEFAULT][1].step = Notify("E1")
  /\ accepted[DEFAULT][2].step = Stop
  /\ accepted[DEFAULT][3].step = StepUnit("f")
  /\ Kinds(dispatched) = <<"Notify", "Stop">>
  /\ table[<<"Standby", "E1">>][2] = NextState("Active")
  /\ returned = "Active"
  /\ queues[DEFAULT] # <<>>
  /\ Head(queues[DEFAULT]).step = StepUnit("f")

\* C8: the state is changed by Notify steps only.  At every point of the loop
\* the state is the start state folded with transition over the events of the
\* Notify steps dispatched so far, in dispatch order, and the only step of
\* the system that changes the state is the dispatch of a Notify, which sets
\* it to what transition gave for the state and the event.
StateFold ==
  /\ [](state = FoldState(start, dispatched))
  /\ [][ state' # state =>
           /\ pc = "dispatch"
           /\ cur.step.kind = "Notify"
           /\ dispatched' = Append(dispatched, Logged)
           /\ table'[<<state, cur.step.payload[1]>>][2] = NextState(state')
       ]_vars

\* two Notify steps with different events and a callback between them were
\* dispatched, and the state went from Standby to Active and back
StateFoldWitness ==
  /\ Len(dispatched) >= 3
  /\ \E i, j, k \in 1..Len(dispatched) :
       /\ i < j /\ j < k
       /\ dispatched[i].step = Notify("E1")
       /\ dispatched[j].step.kind \in RawKinds
       /\ dispatched[k].step = Notify("E2")
       /\ FoldState(start, SubSeq(dispatched, 1, i)) = "Active"
       /\ FoldState(start, SubSeq(dispatched, 1, k)) = "Standby"
  /\ state = "Standby"

----------------------------------------------------------------------------
(* Properties of run_queue_hilo (Spec, and SpecFull where a queue is full) *)

\* C2: strict priority.  A scheduling decision of run_queue_hilo made while
\* the priority queue is non-empty dispatches the head of the priority queue
\* and leaves the default queue alone; a default-queue step is taken up only
\* at the lo dequeue, which is reached only from a hi dequeue that found the
\* priority queue empty, and it is the head of the default queue.
StrictPriority ==
  [][ /\ (pc = "loop" /\ pc' # "loop" /\ queues[PRIORITY] # <<>>)
           => /\ pc' = "dispatch"
              /\ curq' = PRIORITY
              /\ cur' = Head(queues[PRIORITY])
              /\ queues'[PRIORITY] = Tail(queues[PRIORITY])
              /\ queues'[DEFAULT] = queues[DEFAULT]
      /\ (pc # "dispatch" /\ pc' = "dispatch" /\ curq' = DEFAULT)
           => /\ pc = "trylo"
              /\ cur' = Head(queues[DEFAULT])
      /\ (pc # "trylo" /\ pc' = "trylo")
           => /\ pc = "loop"
              /\ queues[PRIORITY] = <<>>
    ]_vars

\* the priority queue's head was taken while an older step waits in the
\* default queue
StrictPriorityWitness ==
  /\ pc = "dispatch"
  /\ curq = PRIORITY
  /\ queues[DEFAULT] # <<>>
  /\ Head(queues[DEFAULT]).id < cur.id

Enqueued(q, step, id) ==
  IF Len(q) < Capacity THEN q \o <<[step |-> step, id |-> id]>> ELSE q

\* C5 (amended): causality ordering.  A Notify whose transition gives Some(c)
\* is followed by the enqueue of Perform(c) on the queue the Notify was
\* dequeued from.  Unless that queue is full at that moment, the step goes to
\* its tail, behind everything it holds; when it is full (producers refilled
\* it after the Notify was dequeued) the step is dropped and the queue is
\* left as it was.  The other queue is not touched, and steps of one queue
\* are dispatched in the order they were enqueued, so a stored Perform(c) is
\* dispatched after every step that was in the queue ahead of it.
CausalityOrder ==
  /\ [](\A qn \in QueueNames :
          LET from == FromQueue(qn)
          IN  \A i \in 1..(Len(from) - 1) : from[i].id < from[i + 1].id)
  /\ [][ /\ (pc = "dispatch" /\ cur.step.kind = "Notify" /\ pc' # pc)
              => LET out == table'[<<state, cur.step.payload[1]>>]
                 IN  out[1] # None
                       => /\ pc' = "enq_perform"
                          /\ pending' = out[1][2]
                          /\ curq' = curq
                          /\ queues' = queues
         /\ (pc = "enq_perform" /\ pc' # pc)
              => /\ queues'[curq] =
                      Enqueued(queues[curq], Perform(pending), attempts + 1)
                 /\ queues'[Other(curq)] = queues[Other(curq)]
       ]_vars

\* a Notify(E1) at the head of the full default queue gave Some(C1): the
\* Perform(C1) went behind the 63 callbacks and was dispatched after them
CausalityWitness ==
  /\ Len(dispatched) = Capacity + 1
  /\ \A i \in 1..Len(dispatched) : dispatched[i].q = DEFAULT
  /\ dispatched[1].step = Notify("E1")
  /\ \A i \in 2..Capacity : dispatched[i].step = StepUnit("f")
  /\ dispatched[Capacity + 1].step = Perform("C1")
  /\ table[<<"Standby", "E1">>][1] = Some("C1")
  /\ accepted[PRIORITY] = <<>>

\* C5 as stated: the Perform(c) of a Notify is always appended to the tail of
\* the Notify's queue.
PerformAppended ==
  [][ (pc = "enq_perform" /\ pc' # pc)
        => queues'[curq] =
             Append(queues[curq], [step |-> Perform(pending), id |-> attempts + 1])
    ]_vars

StopHilo ==
  /\ pc # "done" =>
       /\ returned = NotReturned
       /\ \A i \in 1..Len(dispatched) : dispatched[i].step # Stop
  /\ pc = "done" =>
       /\ returned = state
       /\ returned = FoldState(start, dispatched)
       /\ dispatched # <<>>
       /\ dispatched[Len(dispatched)].step = Stop
       /\ \A i \in 1..(Len(dispatched) - 1) : dispatched[i].step # Stop
       /\ LET q == dispatched[Len(dispatched)].q
              n == Len(FromQueue(q))
          IN  /\ n >= 1
              /\ FromQueue(q) = SubSeq(accepted[q], 1, n)
              /\ accepted[q][n].step = Stop
              /\ queues[q] = SubSeq(accepted[q], n + 1, Len(accepted[q]))
              /\ FromQueue(Other(q)) \o queues[Other(q)] = accepted[Other(q)]

\* a Stop from the priority queue ended the loop: the Notify ahead of it was
\* dispatched, the Perform behind it and a default-queue step were not
StopHiloWitness ==
  /\ pc = "done"
  /\ Kinds(accepted[PRIORITY]) = <<"Notify", "Stop", "Perform">>
  /\ Kinds(dispatched) = <<"Notify", "Stop">>
  /\ Kinds(queues[PRIORITY]) = <<"Perform">>
  /\ queues[DEFAULT] # <<>>
  /\ returned = "Active"

----------------------------------------------------------------------------
(* Properties of enqueue on a queue that fills up (SpecOverflow) *)

\* the first n steps of the burst, as the queue stores them
Burst(n) == [i \in 1..n |-> [step |-> StepU32("f", i), id |-> i]]

\* C6: overflow.  A queue never holds more than 64 steps.  As long as nothing
\* was dequeued, the queue holds the first 64 steps of the burst, in order,
\* however many enqueue calls were made; the 65th call into the full queue
\* stores nothing, and exactly the first 64 steps are then retrievable by
\* dequeue.  An enqueue call on a full queue leaves every queue as it was.
Overflow ==
  /\ [](/\ \A qn \in QueueNames : Len(queues[qn]) <= Capacity
        /\ (dispatched = <<>> /\ cur = NoEntry)
             => queues[DEFAULT] =
                  Burst(IF attempts < Capacity THEN attempts ELSE Capacity)
        /\ (attempts = Capacity + 1 /\ ~lastEnq.stored)
             => Strip(dispatched) \o InFlight(DEFAULT) \o queues[DEFAULT]
                  = Burst(Capacity))
  /\ [][ (attempts' # attempts /\ Len(queues[DEFAULT]) = Capacity)
           => /\ queues' = queues
              /\ accepted' = accepted
              /\ ~lastEnq'.stored
       ]_vars

\* 65 steps were enqueued before any dequeue, the 65th was dropped, and the 64
\* stored steps have all been dequeued and dispatched
OverflowWitness ==
  /\ attempts = Capacity + 1
  /\ ~lastEnq.stored
  /\ queues[DEFAULT] = <<>>
  /\ Strip(dispatched) = Burst(Capacity)

\* C7 as stated: enqueue returns a bool to its caller, false exactly when the
\* queue was full and the item was dropped, true when the item was stored.
EnqueueReportsFailure ==
  lastEnq # NoCall =>
    lastEnq.ret = IF lastEnq.stored THEN "true" ELSE "false"

\* C7 (amended): AsyncStep::enqueue (and with it enqueue_default and
\* enqueue_priority) returns () whether the item was stored or dropped.  The
\* item is stored at the tail when the queue is not full, and dropped, with
\* the queue left as it was, when the queue is full; the return value does
\* not tell the producer which.
EnqueueReturnsUnit ==
  /\ [](lastEnq # NoCall => lastEnq.ret = Unit)
  /\ [][ attempts' # attempts
           => /\ lastEnq'.ret = Unit
              /\ lastEnq'.full = (Len(queues[DEFAULT]) = Capacity)
              /\ lastEnq'.stored = ~lastEnq'.full
              /\ queues'[DEFAULT] =
                   IF Len(queues[DEFAULT]) = Capacity
                     THEN queues[DEFAULT]
                     ELSE Append(queues[DEFAULT],
                                 [step |-> StepU32("f", attempts + 1),
                                  id |-> attempts + 1])
       ]_vars

\* a call on the full queue dropped its step and returned () like any other
EnqueueReturnsUnitWitness ==
  /\ lastEnq.ret = Unit
  /\ lastEnq.full
  /\ ~lastEnq.stored
  /\ attempts > Capacity
  /\ Len(accepted[DEFAULT]) < attempts

----------------------------------------------------------------------------
(* Properties of the idle-wait *)

\* C11 as stated: idle-wait only when empty.  Whenever the loop is suspended
\* in wfi, both queues it serves are empty.  The loop tests the queues and
\* then executes wfi, and an interrupt routine may enqueue between the two:
\* its interrupt has been served when wfi executes, so the core sleeps with
\* the step queued.
IdleOnlyWhenEmpty ==
  pc = "asleep" => \A qn \in QueueNames : queues[qn] = <<>>

\* the first k - 1 steps the default queue stored hold no Stop
NoStopAhead(k) ==
  \A i \in 1..(k - 1) : accepted[DEFAULT][i].step # Stop

\* C12: liveness of run_queue.  When every idle-wait is ended by a later
\* interrupt and the dispatched steps return, the k-th step the queue stored
\* is, when no Stop was stored ahead of it, eventually dispatched (as the
\* k-th dispatch); this includes a step enqueued after the loop found the
\* queue empty and before it executed wfi, which the loop sleeps on first.
LiveDispatch ==
  /\ \A k \in 1..(2 * MaxEnqLive) :
       (Len(accepted[DEFAULT]) >= k /\ NoStopAhead(k))
         ~> (/\ Len(dispatched) >= k
             /\ Entry(dispatched[k]) = accepted[DEFAULT][k])
  /\ (pc = "asleep" /\ queues[DEFAULT] # <<>>)
       ~> (pc = "dispatch" /\ curq = DEFAULT)

\* the loop dispatched a step, found the queue empty, and sleeps in wfi on a
\* step an interrupt routine enqueued before wfi was executed
LiveDispatchWitness ==
  /\ pc = "asleep"
  /\ dispatched # <<>>
  /\ Len(queues[DEFAULT]) = 1
  /\ NoStopAhead(Len(accepted[DEFAULT]))
  /\ Strip(dispatched) \o queues[DEFAULT] = accepted[DEFAULT]

----------------------------------------------------------------------------
(* Properties of run_queue_hilo under load on the priority queue (SpecStarve) *)

\* transition was called with (s, E1) and gave a command
Sustains(s) ==
  /\ s \in States
  /\ table[<<s, "E1">>] # NotCalled
  /\ table[<<s, "E1">>][1] # None

\* the steps that keep the priority queue loaded: Notify(E1) gives a
\* Perform(C1), whose handler posts E1 again
Loads(step) == step \in {Notify("E1"), Perform("C1")}

\* The priority queue re-loads itself: one of its steps is a Notify(E1) or a
\* Perform(C1), queued or being dispatched, transition gives a command for
\* E1 in the loop's state and in the state E1 leads to, and the loop is not
\* past a test that found the priority queue empty.
SelfLoading ==
  /\ pc \notin {"trylo", "done"}
  /\ Sustains(state)
  /\ Sustains(Applied(state, "E1"))
  /\ Sustains(Applied(Applied(state, "E1"), "E1"))
  /\ \/ \E i \in 1..Len(queues[PRIORITY]) : Loads(queues[PRIORITY][i].step)
     \/ /\ curq = PRIORITY
        /\ Loads(cur.step)
        /\ pc \in {"dispatch", "enq_perform"}
     \/ /\ curq = PRIORITY
        /\ pc = "handling"
        /\ posted < Len(handled)

\* C13: starvation of the default queue.  Once the priority queue re-loads
\* itself it does so for ever: every later scheduling decision finds it
\* non-empty, no step is ever dequeued from the default queue again, whatever
\* it holds (a Stop too), and the loop does not return.
Starvation ==
  /\ [](SelfLoading => (pc = "loop" => queues[PRIORITY] # <<>>))
  /\ [][ SelfLoading
           => /\ SelfLoading'
              /\ IsPrefix(queues[DEFAULT], queues'[DEFAULT])
              /\ FromQueue(DEFAULT)' = FromQueue(DEFAULT)
              /\ returned' = NotReturned
       ]_vars

\* a Stop waits at the head of the default queue, stored before the second
\* priority-queue step was; since then the loop took every step from the
\* priority queue, which is loaded still
StarvationWitness ==
  /\ SelfLoading
  /\ queues[DEFAULT] # <<>>
  /\ Head(queues[DEFAULT]).step = Stop
  /\ Head(queues[DEFAULT]).id <= 2
  /\ FromQueue(DEFAULT) = <<>>
  /\ Len(FromQueue(PRIORITY)) >= 2 * MaxPostsStarve
  /\ posted = MaxPostsStarve

----------------------------------------------------------------------------
(* Properties of concurrent producers (SpecProducers) *)

\* the steps dequeued from the default queue so far, in dequeue order
Dequeued == Strip(dispatched) \o InFlight(DEFAULT)

\* the numbers of producer p's steps in a sequence of entries, in its order
NumbersOf(p, seq) ==
  LET own == SelectSeq(seq, LAMBDA x : /\ x.step.kind = "Step2U32"
                                       /\ x.step.payload[2] = p)
  IN  [i \in 1..Len(own) |-> own[i].step.payload[3]]

\* C14: per-producer order.  The steps of one producer are dequeued in the
\* order that producer enqueued them: the j-th step of producer p to be
\* dequeued is the j-th step p enqueued, wherever the other producers' steps
\* and the steps the loop enqueues itself come in between.
ProducerOrder ==
  \A p \in Producers :
    /\ \A j \in 1..Len(NumbersOf(p, Dequeued)) : NumbersOf(p, Dequeued)[j] = j
    /\ \A j \in 1..Len(NumbersOf(p, queues[DEFAULT])) :
         NumbersOf(p, queues[DEFAULT])[j] = Len(NumbersOf(p, Dequeued)) + j

\* the two producers' steps were dequeued interleaved, 1 2 1 2, with a step
\* the loop enqueued itself dispatched as well
ProducerOrderWitness ==
  /\ Len(dispatched) >= 4
  /\ NumbersOf(1, Dequeued) = <<1, 2>>
  /\ NumbersOf(2, Dequeued) = <<1, 2>>
  /\ \E i, j, k, l \in 1..Len(dispatched) :
       /\ i < j /\ j < k /\ k < l
       /\ dispatched[i].step = Step2U32("f", 1, 1)
       /\ dispatched[j].step = Step2U32("f", 2, 1)
       /\ dispatched[k].step = Step2U32("f", 1, 2)
       /\ dispatched[l].step = Step2U32("f", 2, 2)

----------------------------------------------------------------------------
(* Further properties of the loops and of dispatch *)

\* the loop is inside step.dispatch(..)
InDispatch == pc \in {"dispatch", "handling", "enq_perform"}

\* C15: sequential dispatch.  The loop holds a dequeued step exactly while it
\* is dispatching it.  A step is dequeued only when the loop holds none (the
\* dispatch of the one before has returned), and it is the one dispatched
\* next.  While a step is dispatched no step is dequeued, whatever producers
\* and the step itself enqueue, and the step held is the same until its
\* dispatch returns to the loop.
SequentialDispatch ==
  /\ []((cur # NoEntry) <=> InDispatch)
  /\ [][ /\ (\E qn \in QueueNames : ~IsPrefix(queues[qn], queues'[qn]))
             => /\ cur = NoEntry
                /\ ~InDispatch
                /\ pc' = "dispatch"
                /\ \E qn \in QueueNames :
                     /\ queues[qn] # <<>>
                     /\ cur' = Head(queues[qn])
                     /\ queues'[qn] = Tail(queues[qn])
                     /\ queues'[Other(qn)] = queues[Other(qn)]
         /\ dispatched' # dispatched
             => /\ pc = "dispatch"
                /\ dispatched' = Append(dispatched, Logged)
         /\ InDispatch
             => /\ \A qn \in QueueNames : IsPrefix(queues[qn], queues'[qn])
                /\ \/ cur' = cur /\ curq' = curq /\ InDispatch'
                   \/ cur' = NoEntry /\ pc' \in {"loop", "done"}
       ]_vars

\* the handler of a Perform from the priority queue has posted an event and a
\* producer has enqueued a callback behind it: the loop is still in the
\* dispatch of that Perform and has dequeued neither
SequentialDispatchWitness ==
  /\ pc = "handling"
  /\ curq = PRIORITY
  /\ cur.step.kind = "Perform"
  /\ posted = 1
  /\ Len(handled) = 1
  /\ Len(queues[PRIORITY]) = 2
  /\ queues[PRIORITY][1].step.kind = "Notify"
  /\ queues[PRIORITY][1].id > cur.id
  /\ queues[PRIORITY][2].step.kind = "StepUnit"
  /\ queues[PRIORITY][2].id = attempts

ReturnsOnlyByStop ==
  /\ [](returned # NotReturned <=> pc = "done")
  /\ [][ /\ (pc # "done" /\ pc' = "done")
             => /\ pc = "dispatch"
                /\ cur.step = Stop
                /\ returned' = state
         /\ (InDispatch /\ ~InDispatch' /\ cur.step # Stop)
             => /\ pc' = "loop"
                /\ returned' = NotReturned
         /\ (pc = "dispatch" /\ cur.step = Stop) => (pc' = "done" \/ pc' = pc)
         /\ (pc \in {"loop", "trylo"} /\ pc' # pc /\ queues' = queues)
             => pc' \in {"trylo", "wfi"}
         /\ attempts' # attempts => pc' # "done"
         /\ pc = "done" => pc' = "done"
       ]_vars

\* the Perform of the Notify that headed the full default queue was dropped,
\* and the loop went on: it dispatched every callback, found both queues
\* empty and sleeps in wfi
ReturnsOnlyByStopWitness ==
  /\ pc = "asleep"
  /\ returned = NotReturned
  /\ Len(dispatched) = Capacity + 1
  /\ dispatched[1].step = Notify("E1")
  /\ table[<<"Standby", "E1">>][1] = Some("C1")
  /\ Len(accepted[DEFAULT]) = Capacity + 1
  /\ attempts = Capacity + 2
  /\ \A i \in 2..(Capacity + 1) : dispatched[i].step = StepUnit("f")

----------------------------------------------------------------------------
(* Properties of the Notify arm on a full queue (SpecQuiet, SpecFull) *)

\* C18: the Perform of an undisturbed Notify is not dropped.  When no
\* producer enqueues between the dequeue of a Notify and the end of its
\* dispatch, the queue the Notify was taken from has a free slot all through
\* the dispatch, and the Perform(c) the Notify arm enqueues is stored at the
\* tail of that queue.
PerformNotDropped ==
  /\ []((pc \in {"dispatch", "enq_perform"} /\ cur.step.kind = "Notify")
          => Len(queues[curq]) < Capacity)
  /\ [][ (pc = "enq_perform" /\ pc' # pc)
           => /\ lastEnq'.stored
              /\ ~lastEnq'.full
              /\ queues'[curq] =
                   Append(queues[curq],
                          [step |-> Perform(pending), id |-> attempts + 1])
              /\ accepted'[curq] =
                   Append(accepted[curq],
                          [step |-> Perform(pending), id |-> attempts + 1])
       ]_vars

\* the Notify was taken from the head of the full default queue, on which a
\* producer's call had just been dropped, and its Perform took the slot the
\* Notify left: the queue is full again, the Perform at its tail
PerformNotDroppedWitness ==
  /\ pc = "loop"
  /\ produced = 1
  /\ Len(accepted[DEFAULT]) = Capacity + 1
  /\ Kinds(dispatched) = <<"Notify">>
  /\ Len(queues[DEFAULT]) = Capacity
  /\ queues[DEFAULT][Capacity] = [step |-> Perform("C1"), id |-> Capacity + 2]
  /\ lastEnq.stored

\* the ids of the entries of a sequence
Ids(seq) == {seq[i].id : i \in 1..Len(seq)}

\* C19: the state change and its command are not atomic.  The Notify arm
\* sets the state to what transition gave before it enqueues the Perform.
\* When the queue is full at that enqueue (producers refilled it), the
\* Perform(c) is dropped: the queues are as before, the state stays as the
\* Notify set it, the loop goes on to its next iteration, and the handler is
\* never called for it, as it is called for stored steps only.
StateSetCommandLost ==
  /\ [](/\ state = FoldState(start, dispatched)
        /\ {handled[i][2] : i \in 1..Len(handled)}
              \subseteq (Ids(accepted[PRIORITY]) \cup Ids(accepted[DEFAULT]))
        /\ Len(handled)
              = Len(SelectSeq(dispatched, LAMBDA d : d.step.kind = "Perform")))
  /\ [][ /\ (pc = "dispatch" /\ cur.step.kind = "Notify" /\ pc' # pc)
             => LET out == table'[<<state, cur.step.payload[1]>>]
                IN  /\ out[2] # Same => state' = out[2][2]
                    /\ out[1] # None => (pc' = "enq_perform" /\ queues' = queues)
         /\ (pc = "enq_perform" /\ pc' # pc /\ Len(queues[curq]) = Capacity)
             => /\ state' = state
                /\ queues' = queues
                /\ accepted' = accepted
                /\ ~lastEnq'.stored
                /\ attempts' = attempts + 1
                /\ handled' = handled
                /\ pc' = "loop"
                /\ returned' = NotReturned
       ]_vars

\* transition(Standby, E1) = (Some(C1), Next(Active)); the Notify(E1) headed
\* the full default queue and a producer took the slot it left: the state
\* is Active, the Perform(C1) was dropped, and the loop has dispatched
\* everything the queue stored without one call of the handler
StateSetCommandLostWitness ==
  /\ pc = "asleep"
  /\ state = "Active"
  /\ table[<<"Standby", "E1">>] = <<Some("C1"), NextState("Active")>>
  /\ handled = <<>>
  /\ Len(dispatched) = Capacity + 1
  /\ dispatched[1].step = Notify("E1")
  /\ dispatched[1].q = DEFAULT
  /\ Strip(dispatched) = accepted[DEFAULT]
  /\ attempts = Capacity + 2
  /\ lastEnq.full
  /\ ~lastEnq.stored

====
